---- MODULE Spec2Model ----
(***************************************************************************)
(* MorphingWaveformVoice (Source/MorphingOscillator.h): a synthesiser      *)
(* voice that renders a linear blend of two adjacent waveforms.            *)
(*                                                                         *)
(* Numbers.  The code computes in double.  The model computes in exact     *)
(* fixed point:                                                            *)
(*   - a waveform value, a morph position and wavePosition are integers    *)
(*     in units of 1/One (One stands for the double 1.0);                  *)
(*   - an angle (phaseIndex, phaseIncrement) is an integer number of       *)
(*     ticks, TwoPi ticks to the cycle (TwoPi stands for twoPi radians);   *)
(*   - a product of two 1/One quantities (interpolatedValue, a buffer      *)
(*     sample) is in units of 1/(One*One).                                 *)
(* std::sin is a table of the sine at the tick angles, rounded to 1/One;   *)
(* every other operation is exact on the values the model draws.  The      *)
(* rounding of double and float arithmetic is not modelled.                *)
(***************************************************************************)
EXTENDS Integers, Sequences, FiniteSets, TLC

\* ------------------------------------------------------------------ units
One == 3000
TwoPi == 12
Pi == TwoPi \div 2

\* ----------------------------------------------------------------- bounds
BufLen == 2           \* samples per channel of the caller's buffer
NumChannels == 2      \* channels of the caller's buffer
MaxPhase == 14        \* renders are explored while the phase stays within
IntBits == 3          \* width of int in the model
MaxPosition == 8      \* morph positions are k * PosStep, k up to this
BelowZero == 1        \* ... and k down to minus this

IntMin == -(2 ^ (IntBits - 1))
IntMax == (2 ^ (IntBits - 1)) - 1
\* the arguments render is called with: a start from just below to just
\* past the buffer; a count from -1 to just more than the buffer holds, and
\* the two most negative counts
StartArgs == (-1)..BufLen
NumArgs == {IntMin, IntMin + 1} \cup ((-1)..(BufLen + 1))
PosStep == One \div 2
Positions == { k * PosStep : k \in (-BelowZero)..MaxPosition }
DomainPositions == { p \in Positions : p >= 0 /\ p <= 3 * One }
Notes == {69, 81}
SampleRates == {2640}
Fills == {One * One}
Channels == 0..(NumChannels - 1)
StartSamples == 0..(BufLen - 1)
\* the inputs of the interleaved specification
ConcPositions == { p \in DomainPositions : p > 0 /\ p % (3 * PosStep) = 0 }
ConcNotes == {81}
ConcSampleRates == {2640}

VARIABLES
    phaseIndex,       \* double phaseIndex
    phaseIncrement,   \* double phaseIncrement
    wavePosition,     \* double wavePosition
    wave_a,           \* int wave_a
    wave_b,           \* int wave_b
    outputBuffer,     \* the AudioBuffer<float> the caller passes to render
    fault,            \* a write outside the buffer has happened
    noteState,        \* history: "fresh", "sounding" or "stopped"
    rendered,         \* history: samples rendered since the last startNote
    lastMorph,        \* history: argument of the last completed updateMorphFunctions
    calledSinceStop,  \* history: render has been called since the last stopNote
    phaseAtStop,      \* history: phaseIndex when the last stopNote ran
    pc,               \* audio thread: position inside renderNextBlock
    numSamples,       \* audio thread: renderNextBlock's numSamples
    startSample,      \* audio thread: renderNextBlock's startSample
    wave_a_value,     \* audio thread: local wave_a_value
    wave_b_value,     \* audio thread: local wave_b_value
    firstWavePosition,\* audio thread: wavePosition as read for (1.0 - wavePosition)
    entry,            \* history: phase, increment and arguments at the call's entry
    pending,          \* control thread: stores of updateMorphFunctions not yet done
    morphArg          \* control thread: updateMorphFunctions' position

voice == <<phaseIndex, phaseIncrement, wavePosition, wave_a, wave_b>>
audio == <<pc, numSamples, startSample, wave_a_value, wave_b_value, firstWavePosition, entry>>
control == <<pending, morphArg>>
history == <<noteState, rendered, lastMorph, calledSinceStop, phaseAtStop>>
vars == <<voice, outputBuffer, fault, history, audio, control>>

NoMorph == <<>>
\* double level = 1.0, a plain factor
level == 1

\* --------------------------------------------------------------- waveforms
SinTable == <<0, 1500, 2598, 3000, 2598, 1500, 0, -1500, -2598, -3000, -2598, -1500>>

\* std::sin at a tick angle
Sin(angle) == SinTable[(angle % TwoPi) + 1]

\* std::asin of a value of the sine table, in ticks, in [-Pi/2, Pi/2]
ArcSin(v) == CHOOSE t \in (-(Pi \div 2))..(Pi \div 2) : Sin(t) = v

\* std::fmod: the result has the sign of the dividend
Fmod(x, y) == IF x >= 0 THEN x % y ELSE -((-x) % y)

sineValue(currentAngle) == Sin(currentAngle)

squareValue(currentAngle) ==
    One - 2 * (IF Sin(currentAngle) < 0 THEN One ELSE 0)

triangleValue(currentAngle) ==
    (2 * One * ArcSin(Sin(currentAngle))) \div Pi

sawValue(currentAngle) ==
    (2 * One * (Fmod(currentAngle, TwoPi) - Pi)) \div Pi

getWaveSample(waveform, input) ==
    IF waveform = 0 THEN sineValue(input)
    ELSE IF waveform = 1 THEN squareValue(input)
    ELSE IF waveform = 2 THEN triangleValue(input)
    ELSE sawValue(input)

\* ------------------------------------------------------------------ morph
Clamp(x, lo, hi) == IF x < lo THEN lo ELSE IF x > hi THEN hi ELSE x

\* std::floor(position), in units of 1/One
Floor(position) == (position \div One) * One

\* a variant that rounds to the nearest index where the code takes the floor
MorphWaveARounded(position) == (position + (One \div 2)) \div One

\* wave_a = static_cast<int>(positionFloor)
MorphWaveA(position) == Floor(position) \div One

\* a variant without the clamp
MorphWaveBUnclamped(a) == a + 1

\* wave_b = std::clamp(wave_a + 1, 0, 3)
MorphWaveB(a) == Clamp(a + 1, 0, 3)

\* wavePosition = position - positionFloor
MorphFraction(position) == position - Floor(position)

\* --------------------------------------------------------------- startNote
\* MidiMessage::getMidiNoteInHertz, on the notes an octave apart from A4
MidiNoteInHertz(n) == 440 * (2 ^ ((n - 69) \div 12))

\* a variant whose division is an integer division
NotePhaseIncrementTruncated(n, sampleRate) ==
    (MidiNoteInHertz(n) \div sampleRate) * TwoPi

\* phaseIncrement = (currentFrequency / getSampleRate()) * twoPi, in ticks
NotePhaseIncrement(n, sampleRate) == (MidiNoteInHertz(n) * TwoPi) \div sampleRate

\* ------------------------------------------------------------------ render
\* juce::approximatelyEqual: the tolerance is below one tick
approximatelyEqual(a, b) == a = b

\* interpolatedValue, with the two reads of wavePosition kept apart
Interpolated(a, b, w1, w2) == (a * (One - w1)) + (b * w2)

\* levelAdjustedSample
LevelAdjusted(interpolatedValue) == interpolatedValue * level

\* the sample the loop body computes at a phase, the voice left alone
SampleAt(phase) ==
    LevelAdjusted(Interpolated(getWaveSample(wave_a, phase),
                               getWaveSample(wave_b, phase),
                               wavePosition, wavePosition))

\* a variant that stores the sample where the code adds it
AddSampleOverwrite(buf, pos, x) ==
    [c \in Channels |-> [buf[c] EXCEPT ![pos] = x]]

\* outputBuffer.addSample (channel, startSample, x) for every channel
AddSample(buf, pos, x) ==
    [c \in Channels |-> [buf[c] EXCEPT ![pos] = @ + x]]

\* a variant of the loop that wraps the phase at twoPi
RECURSIVE RenderLoopWrapped(_, _, _, _, _)
RenderLoopWrapped(phase, increment, buf, s, n) ==
    IF n - 1 < 0
    THEN [phase |-> phase, buf |-> buf, count |-> 0, fault |-> FALSE]
    ELSE IF s \notin 0..(BufLen - 1)
    THEN [phase |-> phase, buf |-> buf, count |-> 0, fault |-> TRUE]
    ELSE LET r == RenderLoopWrapped(Fmod(phase + increment, TwoPi), increment,
                                    AddSample(buf, s, SampleAt(phase)), s + 1, n - 1)
         IN  [r EXCEPT !.count = @ + 1]

\* the while loop of renderNextBlock, run without interruption
RECURSIVE RenderLoop(_, _, _, _, _)
RenderLoop(phase, increment, buf, s, n) ==
    IF n - 1 < 0
    THEN [phase |-> phase, buf |-> buf, count |-> 0, fault |-> FALSE]
    ELSE IF s \notin 0..(BufLen - 1)
    THEN [phase |-> phase, buf |-> buf, count |-> 0, fault |-> TRUE]
    ELSE LET r == RenderLoop(phase + increment, increment,
                             AddSample(buf, s, SampleAt(phase)), s + 1, n - 1)
         IN  [r EXCEPT !.count = @ + 1]

\* renderNextBlock on a given phase and buffer, run without interruption
Render(phase, increment, buf, s, n) ==
    IF approximatelyEqual(increment, 0)
    THEN [phase |-> phase, buf |-> buf, count |-> 0, fault |-> FALSE]
    ELSE RenderLoop(phase, increment, buf, s, n)

\* --numSamples at INT_MIN is signed overflow: the build either wraps to
\* INT_MAX or assumes the decrement cannot overflow
LoopEntry(n) == IF n = IntMin THEN {n, IntMax + 1} ELSE {n}

\* the numSamples a caller passes with a given startSample: any count that
\* fits the buffer, and any count that asks for nothing
NumSamplesFor(s) == IntMin..(BufLen - s)

ZeroBuffer == [c \in Channels |-> [i \in 0..(BufLen - 1) |-> 0]]
NoEntry == [phase |-> 0, increment |-> 0, startSample |-> 0, numSamples |-> 0]

\* ------------------------------------------------------------------- state
Init ==
    /\ phaseIndex = 0
    /\ phaseIncrement = 0
    /\ wavePosition = 0
    /\ wave_a = 0
    /\ wave_b = 0
    /\ outputBuffer = ZeroBuffer
    /\ fault = FALSE
    /\ noteState = "fresh"
    /\ rendered = 0
    /\ lastMorph = NoMorph
    /\ calledSinceStop = FALSE
    /\ phaseAtStop = 0
    /\ pc = "idle"
    /\ numSamples = 0
    /\ startSample = 0
    /\ wave_a_value = 0
    /\ wave_b_value = 0
    /\ firstWavePosition = 0
    /\ entry = NoEntry
    /\ pending = {}
    /\ morphArg = 0

\* ------------------------------------------- operations, each run alone
startNote(midiNoteNumber, sampleRate) ==
    /\ ~fault
    /\ pc = "idle"
    /\ pending = {}
    /\ phaseIndex' = 0
    /\ phaseIncrement' = NotePhaseIncrement(midiNoteNumber, sampleRate)
    /\ noteState' = "sounding"
    /\ rendered' = 0
    /\ calledSinceStop' = FALSE
    /\ phaseAtStop' = 0
    /\ UNCHANGED <<wavePosition, wave_a, wave_b, outputBuffer, fault,
                   lastMorph, audio, control>>

\* a variant of stopNote that leaves phaseIncrement as it is
stopNoteKeepsIncrement ==
    /\ ~fault
    /\ pending = {}
    /\ noteState' = "stopped"
    /\ calledSinceStop' = FALSE
    /\ phaseAtStop' = phaseIndex
    /\ UNCHANGED <<voice, outputBuffer, fault, rendered, lastMorph,
                   audio, control>>

stopNote ==
    /\ ~fault
    /\ pending = {}
    /\ phaseIncrement' = 0
    /\ noteState' = "stopped"
    /\ calledSinceStop' = FALSE
    /\ phaseAtStop' = phaseIndex
    /\ UNCHANGED <<phaseIndex, wavePosition, wave_a, wave_b, outputBuffer, fault,
                   rendered, lastMorph, audio, control>>

updateMorphFunctions(position) ==
    /\ ~fault
    /\ pc = "idle"
    /\ pending = {}
    /\ wave_a' = MorphWaveA(position)
    /\ wave_b' = MorphWaveB(wave_a')
    /\ wavePosition' = MorphFraction(position)
    /\ lastMorph' = <<position>>
    /\ UNCHANGED <<phaseIndex, phaseIncrement, outputBuffer, fault,
                   noteState, rendered, calledSinceStop, phaseAtStop, audio, control>>

\* the buffer a caller passes: every sample of channel c holds
\* fill * (c + 1), the contributions of other voices
BufferOf(fill) == [c \in Channels |-> [i \in 0..(BufLen - 1) |-> fill * (c + 1)]]

\* a caller asks for a range inside its buffer, or for nothing; of a voice
\* that is not sounding it may ask anything
Fits(s, n) == s >= 0 /\ n >= 0 /\ s + n <= BufLen
CallAllowed(s, n) == Fits(s, n) \/ n <= 0 \/ noteState # "sounding"

\* renderNextBlock (outputBuffer, s, n), outputBuffer holding BufferOf(fill)
renderNextBlock(s, n, fill) ==
    /\ ~fault
    /\ pc = "idle"
    /\ pending = {}
    /\ CallAllowed(s, n)
    /\ UNCHANGED <<phaseIncrement, wavePosition, wave_a, wave_b,
                   noteState, lastMorph, phaseAtStop, audio, control>>
    /\ calledSinceStop' = (noteState = "stopped")
    /\ \E n0 \in LoopEntry(n) :
         LET r == Render(phaseIndex, phaseIncrement, BufferOf(fill), s, n0) IN
         /\ r.phase <= MaxPhase
         /\ phaseIndex' = r.phase
         /\ outputBuffer' = r.buf
         /\ fault' = r.fault
         /\ rendered' = rendered + r.count

Next ==
    \/ \E n \in Notes, sr \in SampleRates : startNote(n, sr)
    \/ stopNote
    \/ \E p \in Positions : updateMorphFunctions(p)
    \/ \E s \in StartArgs, n \in NumArgs, f \in Fills : renderNextBlock(s, n, f)

Spec == Init /\ [][Next]_vars

\* ------------------------------- the audio thread, one shared access a step
\* The audio callback clears its buffer (getNextAudioBlock), renders the
\* voice into it and hands it to the device when the call returns; between
\* two callbacks outputBuffer is kept all zero.

\* line 37: the guard reads phaseIncrement once
renderEnter(s, n) ==
    /\ ~fault
    /\ pc = "idle"
    /\ outputBuffer = ZeroBuffer
    /\ IF approximatelyEqual(phaseIncrement, 0)
       THEN UNCHANGED audio
       ELSE /\ \E n0 \in LoopEntry(n) :
                 /\ phaseIndex + n0 * phaseIncrement <= MaxPhase
                 /\ numSamples' = n0
                 /\ entry' = [phase |-> phaseIndex, increment |-> phaseIncrement,
                              startSample |-> s, numSamples |-> n0]
            /\ startSample' = s
            /\ pc' = "test"
            /\ UNCHANGED <<wave_a_value, wave_b_value, firstWavePosition>>
    /\ calledSinceStop' = (noteState = "stopped")
    /\ UNCHANGED <<voice, outputBuffer, fault, noteState, rendered, lastMorph,
                   phaseAtStop, control>>

\* lines 39 and 41: the loop test; then either the call returns, or wave_a
\* and phaseIndex are read
renderTestAndReadA ==
    /\ ~fault
    /\ pc = "test"
    /\ IF numSamples - 1 < 0
       THEN /\ pc' = "idle"
            /\ numSamples' = 0
            /\ startSample' = 0
            /\ entry' = NoEntry
            /\ outputBuffer' = ZeroBuffer
            /\ UNCHANGED wave_a_value
       ELSE /\ numSamples' = numSamples - 1
            /\ wave_a_value' = getWaveSample(wave_a, phaseIndex)
            /\ pc' = "b"
            /\ UNCHANGED <<startSample, entry, outputBuffer>>
    /\ UNCHANGED <<voice, fault, history, wave_b_value, firstWavePosition, control>>

\* line 42: wave_b is read
renderReadB ==
    /\ ~fault
    /\ pc = "b"
    /\ wave_b_value' = getWaveSample(wave_b, phaseIndex)
    /\ pc' = "low"
    /\ UNCHANGED <<voice, outputBuffer, fault, history, numSamples, startSample,
                   wave_a_value, firstWavePosition, entry, control>>

\* line 43, left operand: wavePosition is read
renderReadWavePosition ==
    /\ ~fault
    /\ pc = "low"
    /\ firstWavePosition' = wavePosition
    /\ pc' = "add"
    /\ UNCHANGED <<voice, outputBuffer, fault, history, numSamples, startSample,
                   wave_a_value, wave_b_value, entry, control>>

\* line 43, right operand, to line 47: wavePosition is read again and the
\* sample is added to every channel; the three locals are dead from here
renderAddSample ==
    /\ ~fault
    /\ pc = "add"
    /\ IF startSample \in 0..(BufLen - 1)
       THEN /\ outputBuffer' =
                 AddSample(outputBuffer, startSample,
                           LevelAdjusted(Interpolated(wave_a_value, wave_b_value,
                                                      firstWavePosition, wavePosition)))
            /\ pc' = "advance"
            /\ wave_a_value' = 0
            /\ wave_b_value' = 0
            /\ firstWavePosition' = 0
            /\ UNCHANGED fault
       ELSE /\ fault' = TRUE
            /\ UNCHANGED <<outputBuffer, pc, wave_a_value, wave_b_value,
                           firstWavePosition>>
    /\ UNCHANGED <<voice, history, numSamples, startSample, entry, control>>

\* lines 48 and 49: phaseIncrement is read and added to phaseIndex
renderAdvance ==
    /\ ~fault
    /\ pc = "advance"
    /\ phaseIndex' = phaseIndex + phaseIncrement
    /\ startSample' = startSample + 1
    /\ rendered' = rendered + 1
    /\ pc' = "test"
    /\ UNCHANGED <<phaseIncrement, wavePosition, wave_a, wave_b, outputBuffer, fault,
                   noteState, lastMorph, calledSinceStop, phaseAtStop, numSamples,
                   wave_a_value, wave_b_value, firstWavePosition, entry, control>>

RenderSteps ==
    \/ \E s \in StartSamples : \E n \in NumSamplesFor(s) : renderEnter(s, n)
    \/ renderTestAndReadA
    \/ renderReadB
    \/ renderReadWavePosition
    \/ renderAddSample
    \/ renderAdvance

\* stopNote on the control thread at any point of a render; the morph is
\* changed between renders only
NextStop ==
    \/ \E n \in ConcNotes, sr \in ConcSampleRates : startNote(n, sr)
    \/ stopNote
    \/ \E p \in ConcPositions : updateMorphFunctions(p)
    \/ RenderSteps

SpecStop == Init /\ [][NextStop]_vars

\* ---------------- the control thread: updateMorphFunctions, a store a step
MorphFields == {"wave_a", "wave_b", "wavePosition"}

\* the stores of lines 64 to 66 are independent, so they land in any order
morphStore(position, f) ==
    /\ \/ f = "wave_a" /\ wave_a' = MorphWaveA(position)
                       /\ UNCHANGED <<wave_b, wavePosition>>
       \/ f = "wave_b" /\ wave_b' = MorphWaveB(MorphWaveA(position))
                       /\ UNCHANGED <<wave_a, wavePosition>>
       \/ f = "wavePosition" /\ wavePosition' = MorphFraction(position)
                             /\ UNCHANGED <<wave_a, wave_b>>
    /\ UNCHANGED <<phaseIndex, phaseIncrement, outputBuffer, fault, noteState,
                   rendered, calledSinceStop, phaseAtStop, audio>>

morphFirstStore(position, f) ==
    /\ ~fault
    /\ pending = {}
    /\ morphArg' = position
    /\ pending' = MorphFields \ {f}
    /\ morphStore(position, f)
    /\ UNCHANGED lastMorph

morphLaterStore(f) ==
    /\ ~fault
    /\ f \in pending
    /\ pending' = pending \ {f}
    /\ morphStore(morphArg, f)
    /\ lastMorph' = IF pending' = {} THEN <<morphArg>> ELSE lastMorph
    /\ UNCHANGED morphArg

stopNoteBetweenRenders ==
    /\ pc = "idle"
    /\ stopNote

\* updateMorphFunctions on the control thread at any point of a render; the
\* note is started and stopped between renders only
NextMorph ==
    \/ \E n \in ConcNotes, sr \in ConcSampleRates : startNote(n, sr)
    \/ stopNoteBetweenRenders
    \/ \E p \in ConcPositions, f \in MorphFields : morphFirstStore(p, f)
    \/ \E f \in MorphFields : morphLaterStore(f)
    \/ RenderSteps

SpecMorph == Init /\ [][NextMorph]_vars

\* ================================================================ claims

\* ---------------------------------------------------------------------- C1
\* C1: once stopNote has run and until the next startNote, the phase stays
\* what it was when stopNote ran, and a render call, with any startSample
\* and any numSamples, leaves every sample of every channel of the buffer
\* it was passed as it was and writes nowhere.
C1_SilentAfterStop ==
    noteState = "stopped" =>
        /\ phaseIndex = phaseAtStop
        /\ ~fault
        /\ calledSinceStop => \E f \in Fills : outputBuffer = BufferOf(f)

\* a stopped voice that has sounded was asked to render into a buffer that
\* holds other contributions
C1_Witness ==
    /\ noteState = "stopped"
    /\ calledSinceStop
    /\ rendered > 0
    /\ outputBuffer # ZeroBuffer

\* ---------------------------------------------------------------------- C2
\* C2: after any updateMorphFunctions(position), negative positions and
\* positions of 4 and more included, wave_a is in 0..3, wave_b is
\* clamp(wave_a + 1, 0, 3) and wavePosition is in [0, 1].
C2_MorphInRange ==
    lastMorph # NoMorph =>
        /\ wave_a \in 0..3
        /\ wave_b = Clamp(wave_a + 1, 0, 3)
        /\ wavePosition >= 0 /\ wavePosition <= One

\* ---------------------------------------------------------------------- C3
\* C3: phaseIncrement is zero exactly when the voice is not sounding, that
\* is when no startNote has run since construction or the last stopNote.
C3_SilenceSentinel ==
    (phaseIncrement = 0) <=> (noteState # "sounding")

\* a voice that sounds, has rendered, and had its morph set
C3_Witness ==
    /\ noteState = "sounding"
    /\ rendered > 0
    /\ lastMorph # NoMorph
    /\ phaseIncrement > 0

\* ---------------------------------------------------------------------- C4
\* the sample the claim expects at offset k of a render call
C4_Addend(k) ==
    LET angle == phaseIndex + k * phaseIncrement
        a == getWaveSample(wave_a, angle)
        b == getWaveSample(wave_b, angle)
    IN  ((a * (One - wavePosition)) + (b * wavePosition)) * level

\* C4: a render call on a sounding voice adds, in every channel and at
\* each position startSample + i with 0 <= i < numSamples, the blend
\* (a * (1 - wavePosition) + b * wavePosition) * level of the two waveforms
\* at phase + i * phaseIncrement to what the buffer held; no other position
\* changes; the addend is the low waveform at fraction 0 and the mean of
\* the two at fraction 1/2.
C4_RenderAdds ==
    [][\A s \in StartArgs, n \in NumArgs, f \in Fills :
         (noteState = "sounding" /\ Fits(s, n) /\ renderNextBlock(s, n, f))
            => /\ ~fault'
               /\ \A c \in Channels, i \in 0..(BufLen - 1) :
                    outputBuffer'[c][i] =
                       BufferOf(f)[c][i]
                         + (IF i >= s /\ i < s + n THEN C4_Addend(i - s) ELSE 0)
               /\ \A k \in 0..(n - 1) :
                    LET angle == phaseIndex + k * phaseIncrement IN
                    /\ wavePosition = 0
                         => C4_Addend(k) = getWaveSample(wave_a, angle) * One * level
                    /\ 2 * wavePosition = One
                         => 2 * C4_Addend(k) =
                              (getWaveSample(wave_a, angle)
                                 + getWaveSample(wave_b, angle)) * One * level]_vars

\* a half-way blend was rendered into a buffer whose channels held
\* different contributions
C4_Witness ==
    /\ noteState = "sounding"
    /\ rendered > 0
    /\ 2 * wavePosition = One
    /\ \E i \in 0..(BufLen - 1) :
         /\ outputBuffer[0][i] \notin {0, One * One}
         /\ outputBuffer[1][i] - outputBuffer[0][i] = One * One

\* ---------------------------------------------------------------------- C5
\* C5: each of the four waveforms lies in [-1, 1] at every phase the
\* accumulator reaches, and so does the blended sample at level 1.
C5_WaveformRange ==
    noteState = "sounding" =>
        /\ \A w \in 0..3 :
             /\ getWaveSample(w, phaseIndex) >= -One
             /\ getWaveSample(w, phaseIndex) <= One
        /\ (wave_a \in 0..3 /\ wavePosition \in 0..One) =>
             /\ SampleAt(phaseIndex) >= -(One * One)
             /\ SampleAt(phaseIndex) <= One * One

\* ---------------------------------------------------------------------- C6
\* C6: with updateMorphFunctions(position), position in [0, 3], running on
\* the control thread and its three stores landing anywhere between the
\* reads of a render, every waveform index a render can read is in 0..3
\* and every fraction it can read, or has read, is in [0, 1].
C6_TornReadsInRange ==
    /\ wave_a \in 0..3
    /\ wave_b \in 0..3
    /\ wavePosition >= 0 /\ wavePosition <= One
    /\ firstWavePosition >= 0 /\ firstWavePosition <= One

\* a render is about to read wavePosition a second time, an update is
\* half stored, and the value differs from the one it read first
C6_Witness ==
    /\ pc = "add"
    /\ pending # {}
    /\ firstWavePosition # wavePosition

\* ---------------------------------------------------------------------- C7
\* C7: a stopNote that runs while a render call is inside its loop changes
\* nothing of that call: when the call returns it has written the samples
\* and advanced the phase as it would have done running alone.
C7_StopLeavesRenderAlone ==
    (pc = "test" /\ numSamples - 1 < 0) =>
        LET r == Render(entry.phase, entry.increment, ZeroBuffer,
                        entry.startSample, entry.numSamples)
        IN  /\ outputBuffer = r.buf
            /\ phaseIndex = r.phase
            /\ phaseIndex = entry.phase + r.count * entry.increment

\* ---------------------------------------------------------------------- C8
\* C8: for a sounding voice, rendering n samples at s and then m samples
\* at s + n leaves the buffer and the phase as one render of n + m samples
\* at s does; the phase is the number of samples rendered since startNote
\* times phaseIncrement, never wrapped and never reset.
C8_PhaseContinuous ==
    noteState = "sounding" =>
        /\ phaseIndex = rendered * phaseIncrement
        /\ \A s \in 0..BufLen, n \in 0..BufLen, m \in 0..BufLen :
             (s + n + m <= BufLen) =>
                LET first == Render(phaseIndex, phaseIncrement, outputBuffer, s, n)
                    second == Render(first.phase, phaseIncrement, first.buf, s + n, m)
                    whole == Render(phaseIndex, phaseIncrement, outputBuffer, s, n + m)
                IN  /\ second.phase = whole.phase
                    /\ second.buf = whole.buf
                    /\ whole.phase = (rendered + n + m) * phaseIncrement

\* a note has been rendered over more than one call and past a full cycle
C8_Witness ==
    /\ noteState = "sounding"
    /\ rendered > BufLen
    /\ phaseIndex > TwoPi

\* ---------------------------------------------------------------------- C9
\* C9: updateMorphFunctions(p) with p in [0, 3] sets wave_a to floor(p),
\* wave_b to min(floor(p) + 1, 3) and wavePosition to p - floor(p),
\* whatever the morph was: 0.0 gives the pure sine, 3.0 the pure sawtooth
\* (both indices 3), 1.5 the even blend of square and triangle.
C9_SetMorph ==
    (lastMorph # NoMorph /\ lastMorph[1] >= 0 /\ lastMorph[1] <= 3 * One) =>
        LET p == lastMorph[1]
            k == CHOOSE j \in 0..3 : j * One <= p /\ p < (j + 1) * One
            angles == 0..(TwoPi - 1)
        IN  /\ wave_a = k
            /\ wave_b = (IF k + 1 < 3 THEN k + 1 ELSE 3)
            /\ wavePosition = p - k * One
            /\ p = 0 =>
                 /\ wave_a = 0 /\ wavePosition = 0
                 /\ \A t \in angles : SampleAt(t) = sineValue(t) * One * level
            /\ p = 3 * One =>
                 /\ wave_a = 3 /\ wave_b = 3 /\ wavePosition = 0
                 /\ \A t \in angles : SampleAt(t) = sawValue(t) * One * level
            /\ 2 * p = 3 * One =>
                 /\ wave_a = 1 /\ wave_b = 2 /\ 2 * wavePosition = One
                 /\ \A t \in angles :
                      2 * SampleAt(t) = (squareValue(t) + triangleValue(t)) * One * level

\* the morph was set to 1.5 on a voice that is sounding
C9_Witness ==
    /\ lastMorph # NoMorph
    /\ 2 * lastMorph[1] = 3 * One
    /\ noteState = "sounding"

\* --------------------------------------------------------------------- C10
\* C10: a render call whose numSamples is zero or negative, on a sounding or
\* a silent voice, changes no buffer sample and no field of the voice, and
\* writes nowhere.
C10_NothingToRender ==
    [][\A s \in StartArgs, n \in NumArgs, f \in Fills :
         (n <= 0 /\ renderNextBlock(s, n, f))
            => /\ UNCHANGED voice
               /\ outputBuffer' = BufferOf(f)
               /\ ~fault']_vars

====
